---- MODULE Spec2Model ----
(***************************************************************************)
(* Model of the prompt-mentor-mcp tool server: the list-tools and the      *)
(* call-tool request handlers (validation, dispatch, handlers, catch       *)
(* blocks) of each server snapshot in the repository, the Gemini           *)
(* collaborator it awaits, and the process around them (startup, signals,  *)
(* exit codes).                                                            *)
(*                                                                         *)
(* A JavaScript string is a sequence of atoms; the atom " " is a           *)
(* whitespace character, every other atom is an opaque run of              *)
(* non-whitespace text (or a literal of the source).  Concatenation is \o. *)
(***************************************************************************)
EXTENDS Integers, Sequences, FiniteSets, Bags, TLC

VARIABLES snapshot, env, pending, last, proc

vars == <<snapshot, env, pending, last, proc>>

(***************************************************************************)
(* Bounds                                                                  *)
(***************************************************************************)
\* number of invocations that may be suspended at the collaborator at once
MaxPending == 2
\* longest `name` argument of say_hello, in atoms
MaxNameLen == 3
\* longest `prompts` array of review_prompts
MaxPrompts == 2

(***************************************************************************)
(* JavaScript values                                                       *)
(***************************************************************************)
Undef == [t |-> "undefined"]
Null == [t |-> "null"]
Str(s) == [t |-> "string", s |-> s]
Num(n) == [t |-> "number", n |-> n]
Bool(b) == [t |-> "boolean", b |-> b]
Arr(e) == [t |-> "array", elems |-> e]
Obj(n, p) == [t |-> "object", name |-> n, prompts |-> p]

\* typeof v
TypeOf(v) == IF v.t \in {"array", "null"} THEN "object" ELSE v.t

\* ToBoolean(v), as used by `!v`, `v && ...`, `v || ...`
Truthy(v) ==
  CASE v.t = "undefined" -> FALSE
    [] v.t = "null" -> FALSE
    [] v.t = "string" -> v.s /= <<>>
    [] v.t = "number" -> v.n /= 0
    [] v.t = "boolean" -> v.b
    [] OTHER -> TRUE

\* Array.isArray(v)
IsArray(v) == v.t = "array"

\* args?.name
GetName(args) == IF args.t = "object" THEN args.name ELSE Undef

\* args?.prompts
GetPrompts(args) == IF args.t = "object" THEN args.prompts ELSE Undef

IsWhitespace(c) == c = " "

RECURSIVE TrimStart(_)
TrimStart(s) ==
  IF s /= <<>> /\ IsWhitespace(Head(s)) THEN TrimStart(Tail(s)) ELSE s

RECURSIVE TrimEnd(_)
TrimEnd(s) ==
  IF s /= <<>> /\ IsWhitespace(s[Len(s)])
  THEN TrimEnd(SubSeq(s, 1, Len(s) - 1))
  ELSE s

\* String.prototype.trim
Trim(s) == TrimEnd(TrimStart(s))

\* the text a template literal `${v}` or String(v) produces
StringOf(v) ==
  CASE v.t = "string" -> v.s
    [] v.t = "undefined" -> <<"undefined">>
    [] v.t = "null" -> <<"null">>
    [] v.t = "number" -> <<"<number>">>
    [] v.t = "boolean" -> IF v.b THEN <<"true">> ELSE <<"false">>
    [] OTHER -> <<"[object]">>

(***************************************************************************)
(* Errors and log events                                                   *)
(***************************************************************************)
InvalidParams == "InvalidParams"
MethodNotFound == "MethodNotFound"
InternalError == "InternalError"

\* new McpError(code, message)
McpError(code, message) == [cls |-> "McpError", code |-> code, message |-> message]

\* new Error(message)
Error(message) == [cls |-> "Error", message |-> message]

\* error instanceof McpError
InstanceOfMcpError(e) == e.t = "error" /\ e.e.cls = "McpError"

\* a thrown value: an Error object, or any other JavaScript value
Thrown(e) == [t |-> "error", e |-> e]

\* error instanceof Error  (McpError extends Error)
InstanceOfError(e) == e.t = "error"

\* log(level, message, data) writes one diagnostic event to stderr
log(level, message, data) == [level |-> level, message |-> message, data |-> data]

NoData == [d |-> "none"]


(***************************************************************************)
(* Server snapshots: the repository holds four versions of the server      *)
(***************************************************************************)
Snapshots == {"part_000", "part_001", "part_002", "server_ts"}

\* the tool names the snapshot announces (`availableTools`), in order
Tools(snap) ==
  CASE snap = "part_000" -> << <<"say_hello">>, <<"test_gemini">>, <<"review_prompts">> >>
    [] snap = "part_001" -> << <<"say_hello">>, <<"get_current_time">>, <<"server_info">> >>
    [] snap = "part_002" -> << <<"say_hello">> >>
    [] snap = "server_ts" -> << <<"say_hello">>, <<"test_gemini">> >>

\* the case labels of the call-tool handler's switch
Cases(snap) ==
  CASE snap = "part_000" -> { <<"say_hello">>, <<"test_gemini">>, <<"review_prompts">> }
    [] snap = "part_001" -> { <<"say_hello">>, <<"get_current_time">>, <<"server_info">> }
    [] snap = "part_002" -> { <<"say_hello">> }
    [] snap = "server_ts" -> { <<"say_hello">>, <<"test_gemini">> }

\* one element of the `tools` array: name, description, inputSchema
Descriptor(name, description, properties, required) ==
  [name |-> name, description |-> description,
   inputSchema |-> [type |-> "object", properties |-> properties, required |-> required]]

SayHelloTool ==
  Descriptor(<<"say_hello">>, "Get a friendly hello message from the server", {"name"}, {})
GetCurrentTimeTool ==
  Descriptor(<<"get_current_time">>, "Get the current system time in a formatted string", {}, {})
ServerInfoTool ==
  Descriptor(<<"server_info">>, "Get information about this MCP server", {}, {})
TestGeminiTool ==
  Descriptor(<<"test_gemini">>, "Test connectivity to the Gemini API", {}, {})
ReviewPromptsTool ==
  Descriptor(<<"review_prompts">>, "Review a list of prompts from a conversation",
             {"prompts"}, {"prompts"})

\* variant: review_prompts got its case in the switch but not its descriptor
ToolsArrayWithoutReview(snap) ==
  CASE snap = "part_000" -> <<SayHelloTool, TestGeminiTool>>
    [] snap = "part_001" -> <<SayHelloTool, GetCurrentTimeTool, ServerInfoTool>>
    [] snap = "part_002" -> <<SayHelloTool>>
    [] snap = "server_ts" -> <<SayHelloTool, TestGeminiTool>>

\* const tools = [ ... ] of the list-tools handler
ToolsArray(snap) ==
  CASE snap = "part_000" -> <<SayHelloTool, TestGeminiTool, ReviewPromptsTool>>
    [] snap = "part_001" -> <<SayHelloTool, GetCurrentTimeTool, ServerInfoTool>>
    [] snap = "part_002" -> <<SayHelloTool>>
    [] snap = "server_ts" -> <<SayHelloTool, TestGeminiTool>>

\* const server = new Server(...): the module-level instance, always set
server == Bool(TRUE)

(***************************************************************************)
(* How a synchronous segment of the handler ends                           *)
(***************************************************************************)
Return(text, ran, logs) == [k |-> "return", text |-> text, ran |-> ran, logs |-> logs]
Throw(thrown, ran, logs) == [k |-> "throw", thrown |-> thrown, ran |-> ran, logs |-> logs]
Await(op, contents, ran, logs) ==
  [k |-> "await", op |-> op, contents |-> contents, ran |-> ran, logs |-> logs]

(***************************************************************************)
(* Validator                                                               *)
(***************************************************************************)
Ok == [cls |-> "ok"]

ValidateServerState(srv) ==
  IF ~Truthy(srv)
  THEN McpError(InternalError, <<"Server not properly initialized">>)
  ELSE Ok

\* variant: the tool-name check is missing
ValidateToolParamsNoNameCheck(toolName, params) ==
  IF Truthy(params) /\ TypeOf(params) /= "object"
  THEN McpError(InvalidParams, <<"Tool parameters must be an object">>)
  ELSE Ok

ValidateToolParams(toolName, params) ==
  IF ~Truthy(toolName) \/ TypeOf(toolName) /= "string"
  THEN McpError(InvalidParams, <<"Tool name must be a non-empty string">>)
  ELSE IF Truthy(params) /\ TypeOf(params) /= "object"
  THEN McpError(InvalidParams, <<"Tool parameters must be an object">>)
  ELSE Ok

(***************************************************************************)
(* Gemini client                                                           *)
(***************************************************************************)
NoResponse == <<"No response from Gemini API">>

\* variant: a whitespace-only key is accepted
ApiKeyInvalidNoTrim(apiKey) ==
  ~Truthy(apiKey) \/ TypeOf(apiKey) /= "string"

ApiKeyInvalid(apiKey) ==
  ~Truthy(apiKey) \/ TypeOf(apiKey) /= "string" \/ Trim(apiKey.s) = <<>>

CreateGeminiClient(apiKey) ==
  IF ApiKeyInvalid(apiKey)
  THEN Error(<<"GEMINI_API_KEY is required and must be a non-empty string">>)
  ELSE Ok

ConnectivityPrompt == <<"Explain how AI works in a few words">>

ReviewIntro == <<"You will be provided a list of chat messages [...] The prompts given by the user are as follows:", "\n\n">>
ReviewOutro == <<"\n\n", "Please provide constructive feedback, highlighting both strengths and areas for improvement in these prompts.">>

Numeral(i) == <<"0", "1", "2", "3", "4", "5", "6", "7", "8", "9">>[i + 1]

\* prompts.map((prompt, index) => `${index + 1}. ${prompt}`).join('\n\n')
RECURSIVE NumberedFrom(_, _)
NumberedFrom(prompts, index) ==
  IF index >= Len(prompts) THEN <<>>
  ELSE (IF index > 0 THEN <<"\n\n">> ELSE <<>>)
       \o <<Numeral(index + 1), ". ">> \o StringOf(prompts[index + 1])
       \o NumberedFrom(prompts, index + 1)

\* variant: the numbered list starts at the second prompt
ReviewPromptDropFirst(prompts) == ReviewIntro \o NumberedFrom(prompts, 1) \o ReviewOutro

ReviewPrompt(prompts) == ReviewIntro \o NumberedFrom(prompts, 0) \o ReviewOutro

\* res.text || 'No response from Gemini API'
TextOrFallback(text) == IF Truthy(text) THEN text ELSE Str(NoResponse)

(***************************************************************************)
(* Handlers: the case bodies of the switch                                 *)
(***************************************************************************)
Greetings ==
  << <<"Hello from your friendly MCP server!">>,
     <<"Greetings! Your MCP server is working perfectly.">>,
     <<"Hi there! This is a sample message from your MCP server.">>,
     <<"Welcome! Your Model Context Protocol server is operational.">>,
     <<"Hello! This MCP server is ready to assist you.">> >>

\* rnd is Math.floor(Math.random() * greetings.length) + 1
GenerateHelloMessage(snap, rnd) ==
  IF snap = "part_001" THEN Greetings[rnd] ELSE Greetings[1]

NiceToMeetYou == " Nice to meet you, "

Personalize(personName) ==
  Truthy(personName) /\ TypeOf(personName) = "string" /\ Trim(personName.s) /= <<>>

\* variant: the name is appended as given, untrimmed
SayHelloNoTrim(snap, args, rnd, logs) ==
  LET personName == GetName(args)
      base == GenerateHelloMessage(snap, rnd)
      message == IF Personalize(personName)
                 THEN base \o <<NiceToMeetYou>> \o personName.s \o <<"!">>
                 ELSE base
  IN Return(Str(message), "say_hello",
            logs \o <<log("info", <<"Generated hello message">>, [personName |-> personName])>>)

SayHello(snap, args, rnd, logs) ==
  LET personName == GetName(args)
      base == GenerateHelloMessage(snap, rnd)
      message == IF Personalize(personName)
                 THEN base \o <<NiceToMeetYou>> \o Trim(personName.s) \o <<"!">>
                 ELSE base
  IN Return(Str(message), "say_hello",
            logs \o <<log("info", <<"Generated hello message">>, [personName |-> personName])>>)

\* fails: whether toLocaleString throws
GetCurrentTimeFormatted(fails) ==
  IF fails THEN <<"<ISO timestamp>">> ELSE <<"<weekday, date, time, zone>">>

\* variant: no try/catch around toLocaleString, a formatting failure propagates
GetCurrentTimeNoFallback(fails, logs) ==
  LET timeString == GetCurrentTimeFormatted(FALSE)
  IN IF fails
     THEN Throw(Thrown(Error(<<"Incorrect locale information provided">>)),
                "get_current_time", logs)
     ELSE Return(Str(<<"The current time is: ">> \o timeString), "get_current_time",
                 logs \o <<log("info", <<"Generated current time">>, [timeString |-> timeString])>>)

GetCurrentTime(fails, logs) ==
  LET timeString == GetCurrentTimeFormatted(fails)
      l1 == IF fails
            THEN <<log("error", <<"Failed to format current time">>, NoData)>>
            ELSE <<>>
  IN Return(Str(<<"The current time is: ">> \o timeString), "get_current_time",
            logs \o l1 \o <<log("info", <<"Generated current time">>, [timeString |-> timeString])>>)

ServerInfo(logs) ==
  Return(Str(<<"Server Information:\n", "<serverInfo JSON>">>), "server_info",
         logs \o <<log("info", <<"Generated server info">>, NoData)>>)

CredentialRequired ==
  <<"GEMINI_API_KEY environment variable is required and must be a non-empty string">>

\* variant: the connectivity call is made before the credential is checked
TestGeminiCallFirst(apiKey, logs) ==
  LET l1 == logs \o <<log("info", <<"API KEY: ">> \o StringOf(apiKey), [success |-> TRUE])>>
      l2 == l1 \o <<log("info", <<"Testing Gemini API connectivity using environment key">>, NoData)>>
  IN Await("testConnectivity", ConnectivityPrompt, "test_gemini", l2)

\* test_gemini, up to the await of generateContent
TestGemini(apiKey, logs) ==
  LET l1 == logs \o <<log("info", <<"API KEY: ">> \o StringOf(apiKey), [success |-> TRUE])>>
      l2 == l1 \o <<log("info", <<"Testing Gemini API connectivity using environment key">>, NoData)>>
  IN IF ApiKeyInvalid(apiKey)
     THEN Throw(Thrown(McpError(InvalidParams, CredentialRequired)), "test_gemini", l1)
     ELSE IF CreateGeminiClient(apiKey) /= Ok
     THEN Throw(Thrown(CreateGeminiClient(apiKey)), "test_gemini", l2)
     ELSE Await("testConnectivity", ConnectivityPrompt, "test_gemini", l2)

\* prompts.filter((prompt) => typeof prompt !== 'string')
InvalidPrompts(prompts) ==
  SelectSeq(prompts.elems, LAMBDA prompt : TypeOf(prompt) /= "string")

\* variant: the empty-array check is missing
ReviewPromptsNoEmptyCheck(args, apiKey, logs) ==
  LET prompts == GetPrompts(args)
      l1 == logs \o <<log("info", <<"Received prompts for review">>, NoData)>>
      l2 == l1 \o <<log("info", <<"Starting prompt review using Gemini AI">>, NoData)>>
  IN IF ~IsArray(prompts)
     THEN Throw(Thrown(McpError(InvalidParams, <<"prompts parameter is required and must be an array">>)),
                "review_prompts", logs)
     ELSE IF Len(InvalidPrompts(prompts)) > 0
     THEN Throw(Thrown(McpError(InvalidParams, <<"All prompts must be strings">>)),
                "review_prompts", logs)
     ELSE IF ApiKeyInvalid(apiKey)
     THEN Throw(Thrown(McpError(InvalidParams, CredentialRequired)), "review_prompts", l1)
     ELSE Await("reviewPrompts", ReviewPrompt(prompts.elems), "review_prompts", l2)

\* review_prompts, up to the await of generateContent
ReviewPrompts(args, apiKey, logs) ==
  LET prompts == GetPrompts(args)
      l1 == logs \o <<log("info", <<"Received prompts for review">>, NoData)>>
      l2 == l1 \o <<log("info", <<"Starting prompt review using Gemini AI">>, NoData)>>
  IN IF ~IsArray(prompts)
     THEN Throw(Thrown(McpError(InvalidParams, <<"prompts parameter is required and must be an array">>)),
                "review_prompts", logs)
     ELSE IF Len(prompts.elems) = 0
     THEN Throw(Thrown(McpError(InvalidParams, <<"prompts array cannot be empty">>)),
                "review_prompts", logs)
     ELSE IF Len(InvalidPrompts(prompts)) > 0
     THEN Throw(Thrown(McpError(InvalidParams, <<"All prompts must be strings">>)),
                "review_prompts", logs)
     ELSE IF ApiKeyInvalid(apiKey)
     THEN Throw(Thrown(McpError(InvalidParams, CredentialRequired)), "review_prompts", l1)
     ELSE IF CreateGeminiClient(apiKey) /= Ok
     THEN Throw(Thrown(CreateGeminiClient(apiKey)), "review_prompts", l2)
     ELSE Await("reviewPrompts", ReviewPrompt(prompts.elems), "review_prompts", l2)

\* variant: the message does not embed the requested name
UnknownToolNoName(snap, name, logs) ==
  Throw(Thrown(McpError(MethodNotFound, <<"Unknown tool">>)), "none",
        logs \o <<log("warn", <<"Unknown tool">>, [availableTools |-> Tools(snap)])>>)

\* default: of the switch
UnknownTool(snap, name, logs) ==
  LET errorMessage == <<"Unknown tool: ">> \o StringOf(name)
  IN Throw(Thrown(McpError(MethodNotFound, errorMessage)), "none",
           logs \o <<log("warn", errorMessage, [availableTools |-> Tools(snap)])>>)

(***************************************************************************)
(* Dispatcher: the call-tool request handler                               *)
(***************************************************************************)
\* variant: the switch has no case for review_prompts
SwitchNoReviewPrompts(snap, name, args, apiKey, rnd, fails, logs) ==
  IF name = Str(<<"review_prompts">>) \/ \A c \in Cases(snap) : name /= Str(c)
  THEN UnknownTool(snap, name, logs)
  ELSE CASE name = Str(<<"say_hello">>) -> SayHello(snap, args, rnd, logs)
         [] name = Str(<<"get_current_time">>) -> GetCurrentTime(fails, logs)
         [] name = Str(<<"server_info">>) -> ServerInfo(logs)
         [] name = Str(<<"test_gemini">>) -> TestGemini(apiKey, logs)

\* switch (name) { ... }: strict equality with each case label of the snapshot
Switch(snap, name, args, apiKey, rnd, fails, logs) ==
  IF \A c \in Cases(snap) : name /= Str(c) THEN UnknownTool(snap, name, logs)
  ELSE CASE name = Str(<<"say_hello">>) -> SayHello(snap, args, rnd, logs)
         [] name = Str(<<"get_current_time">>) -> GetCurrentTime(fails, logs)
         [] name = Str(<<"server_info">>) -> ServerInfo(logs)
         [] name = Str(<<"test_gemini">>) -> TestGemini(apiKey, logs)
         [] name = Str(<<"review_prompts">>) -> ReviewPrompts(args, apiKey, logs)

\* the try block, up to its return, its throw or its first await
CallToolTry(snap, name, args, apiKey, rnd, fails) ==
  LET l0 == <<log("info", <<"Received tool call request">>, [toolName |-> name, args |-> args])>>
  IN IF ValidateServerState(server) /= Ok
     THEN Throw(Thrown(ValidateServerState(server)), "none", <<>>)
     ELSE IF ValidateToolParams(name, args) /= Ok
     THEN Throw(Thrown(ValidateToolParams(name, args)), "none", l0)
     ELSE Switch(snap, name, args, apiKey, rnd, fails, l0)

\* variant: the catch block logs the failure and throws nothing
CallToolCatchSwallow(thrown, name, args, logs) ==
  [errors |-> <<>>,
   logs |-> logs \o <<log("error", <<"Tool execution failed">>, NoData)>>]

\* variant: every failure is rewrapped, recognized protocol errors included
CallToolCatchWrapAll(thrown, name, args, logs) ==
  LET errorMessage == IF InstanceOfError(thrown) THEN thrown.e.message ELSE StringOf(thrown)
  IN [errors |-> <<McpError(InternalError, <<"Tool execution failed: ">> \o errorMessage)>>,
      logs |-> logs \o <<log("error", <<"Tool execution failed">>, NoData)>>]

\* variant: the wrapped error does not carry the original message
CallToolCatchGeneric(thrown, name, args, logs) ==
  IF InstanceOfMcpError(thrown)
  THEN [errors |-> <<thrown.e>>,
        logs |-> logs \o <<log("error", <<"Tool execution failed">>, NoData)>>]
  ELSE [errors |-> <<McpError(InternalError, <<"Tool execution failed">>)>>,
        logs |-> logs \o <<log("error", <<"Tool execution failed">>, NoData)>>]

\* variant: the catch block rethrows without logging
CallToolCatchSilent(thrown, name, args, logs) ==
  LET errorMessage == IF InstanceOfError(thrown) THEN thrown.e.message ELSE StringOf(thrown)
  IN IF InstanceOfMcpError(thrown)
     THEN [errors |-> <<thrown.e>>, logs |-> logs]
     ELSE [errors |-> <<McpError(InternalError, <<"Tool execution failed: ">> \o errorMessage)>>,
           logs |-> logs]

\* the catch block: what it logs and what it throws to the caller
CallToolCatch(thrown, name, args, logs) ==
  LET errorMessage == IF InstanceOfError(thrown) THEN thrown.e.message ELSE StringOf(thrown)
      toolName == IF Truthy(name) THEN name ELSE Str(<<"unknown">>)
      l1 == logs \o <<log("error", <<"Tool execution failed">>,
                          [toolName |-> toolName, error |-> errorMessage, args |-> args])>>
  IN IF InstanceOfMcpError(thrown)
     THEN [errors |-> <<thrown.e>>, logs |-> l1]
     ELSE [errors |-> <<McpError(InternalError, <<"Tool execution failed: ">> \o errorMessage)>>,
           logs |-> l1]

\* { content: [{ type: 'text', text }] }
ToolResult(text) == [content |-> << [type |-> "text", text |-> text] >>]

NoThrow == [t |-> "nothing"]
NoReply == [k |-> "none"]

\* the settled invocation: what the caller got, and how the handler got there
Settled(name, args, c, calls, contents, reply) ==
  IF c.k = "return"
  THEN [k |-> "settled", name |-> name, args |-> args,
        results |-> <<ToolResult(c.text)>>, errors |-> <<>>,
        thrown |-> NoThrow, ran |-> c.ran, calls |-> calls,
        contents |-> contents, reply |-> reply, logs |-> c.logs]
  ELSE LET h == CallToolCatch(c.thrown, name, args, c.logs)
       IN [k |-> "settled", name |-> name, args |-> args,
           results |-> <<>>, errors |-> h.errors,
           thrown |-> c.thrown, ran |-> c.ran, calls |-> calls,
           contents |-> contents, reply |-> reply, logs |-> h.logs]

\* an invocation suspended at `await geminiClient.models.generateContent(...)`
Suspended(name, args, c) ==
  [k |-> "suspended", name |-> name, args |-> args, op |-> c.op,
   contents |-> c.contents, ran |-> c.ran, calls |-> 1, logs |-> c.logs]

Resolve(text) == [k |-> "resolve", text |-> text]
Reject(thrown) == [k |-> "reject", thrown |-> thrown]

\* test_gemini from the await on: testConnectivity's return, the result check
TestGeminiResume(p, reply) ==
  IF reply.k = "reject" THEN Throw(reply.thrown, p.ran, p.logs)
  ELSE LET message == TextOrFallback(reply.text)
       IN IF ~Truthy(message) \/ TypeOf(message) /= "string"
          THEN Throw(Thrown(McpError(InternalError, <<"Gemini API did not return a valid response">>)),
                     p.ran, p.logs)
          ELSE Return(message, p.ran,
                      p.logs \o <<log("info", <<"Gemini connectivity test completed">>, [success |-> TRUE])>>)

\* review_prompts from the await on: reviewPrompts' return, the result check
ReviewPromptsResume(p, reply) ==
  IF reply.k = "reject" THEN Throw(reply.thrown, p.ran, p.logs)
  ELSE LET reviewResponse == TextOrFallback(reply.text)
       IN IF ~Truthy(reviewResponse) \/ TypeOf(reviewResponse) /= "string"
          THEN Throw(Thrown(McpError(InternalError, <<"Gemini API did not return a valid review response">>)),
                     p.ran, p.logs)
          ELSE Return(reviewResponse, p.ran,
                      p.logs \o <<log("info", <<"Prompt review completed successfully">>, [success |-> TRUE])>>)

\* variant: a rejected generateContent call is attempted a second time
ResumeRetry(p, reply) ==
  IF reply.k = "reject" /\ p.calls < 2
  THEN Await(p.op, p.contents, p.ran, p.logs)
  ELSE IF p.op = "testConnectivity" THEN TestGeminiResume(p, reply)
  ELSE ReviewPromptsResume(p, reply)

Resume(p, reply) ==
  IF p.op = "testConnectivity" THEN TestGeminiResume(p, reply) ELSE ReviewPromptsResume(p, reply)

(***************************************************************************)
(* The list-tools request handler                                          *)
(***************************************************************************)
\* variant: say_hello is registered a second time at the end of the list
ListToolsTryDuplicate(snap, srv) ==
  LET tools == ToolsArray(snap) \o <<SayHelloTool>>
      l1 == <<log("info", <<"Received tools list request">>, NoData)>>
      l2 == l1 \o <<log("info", <<"Returning ", Numeral(Len(tools)), " available tools">>, NoData)>>
  IN IF ValidateServerState(srv) /= Ok
     THEN [k |-> "throw", thrown |-> Thrown(ValidateServerState(srv)), logs |-> <<>>]
     ELSE [k |-> "return", tools |-> tools, logs |-> l2]

\* the try block: the readiness check, two log events, return { tools }
ListToolsTry(snap, srv) ==
  LET tools == ToolsArray(snap)
      l1 == <<log("info", <<"Received tools list request">>, NoData)>>
      l2 == l1 \o <<log("info", <<"Returning ", Numeral(Len(tools)), " available tools">>, NoData)>>
  IN IF ValidateServerState(srv) /= Ok
     THEN [k |-> "throw", thrown |-> Thrown(ValidateServerState(srv)), logs |-> <<>>]
     ELSE [k |-> "return", tools |-> tools, logs |-> l2]

\* the catch block: what it logs and what it throws to the caller
ListToolsCatch(thrown, logs) ==
  LET errorMessage == IF InstanceOfError(thrown) THEN thrown.e.message ELSE StringOf(thrown)
      l1 == logs \o <<log("error", <<"Failed to list tools">>, [error |-> errorMessage])>>
  IN IF InstanceOfMcpError(thrown)
     THEN [errors |-> <<thrown.e>>, logs |-> l1]
     ELSE [errors |-> <<McpError(InternalError, <<"Failed to retrieve tools list">>)>>,
           logs |-> l1]

\* the answered list-tools request: what the caller got
Listed(c) ==
  IF c.k = "return"
  THEN [k |-> "listed", results |-> << [tools |-> c.tools] >>, errors |-> <<>>,
        logs |-> c.logs]
  ELSE LET h == ListToolsCatch(c.thrown, c.logs)
       IN [k |-> "listed", results |-> <<>>, errors |-> h.errors, logs |-> h.logs]

(***************************************************************************)
(* Inputs                                                                  *)
(***************************************************************************)
RECURSIVE SeqsUpTo(_, _)
SeqsUpTo(S, n) ==
  IF n = 0 THEN {<<>>}
  ELSE LET shorter == SeqsUpTo(S, n - 1)
       IN shorter \cup {Append(q, x) : q \in shorter, x \in S}

\* process.env.GEMINI_API_KEY
EnvValues == {Undef, Str(<<>>), Str(<<" ">>), Str(<<"key-1">>), Str(<<" ", "key-2">>)}

ToolNames ==
  {Str(<<"say_hello">>), Str(<<"get_current_time">>), Str(<<"server_info">>),
   Str(<<"test_gemini">>), Str(<<"review_prompts">>), Str(<<"bogus">>),
   Str(<<>>), Num(42), Undef}

\* one argument value of each shape: absent, a truthy and a falsy primitive,
\* an array, a key-value object
BasicArgs ==
  {Undef, Str(<<"x">>), Arr(<<Str(<<"a">>)>>), Obj(Undef, Undef)}

GenericArgs ==
  BasicArgs \cup {Null, Str(<<>>), Num(0), Num(5), Bool(FALSE), Bool(TRUE), Arr(<<>>)}

NameArgs ==
  {Str(q) : q \in SeqsUpTo({" ", "Ada"}, MaxNameLen)} \cup {Num(5), Bool(TRUE), Null}

\* the i-th prompt of a conversation
PromptAt(i) == Str(<<"prompt-" \o Numeral(i)>>)

\* arrays of up to MaxPrompts elements; element i is the i-th prompt or a number
PromptArrays ==
  UNION {{[i \in 1..n |-> IF i \in bad THEN Num(2) ELSE PromptAt(i)] : bad \in SUBSET (1..n)} :
           n \in 0..MaxPrompts}

PromptsArgs == {Arr(q) : q \in PromptArrays} \cup {Str(<<"a">>), Null}

ArgsFor(name) ==
  CASE name = Str(<<"say_hello">>) -> GenericArgs \cup {Obj(n, Undef) : n \in NameArgs}
    [] name = Str(<<"review_prompts">>) ->
         {Undef, Str(<<"x">>)} \cup {Obj(Undef, p) : p \in PromptsArgs}
    [] name = Str(<<"test_gemini">>) -> {Undef, Str(<<"x">>), Obj(Undef, Undef)}
    [] OTHER -> BasicArgs

Requests == UNION {{<<name, args>> : args \in ArgsFor(name)} : name \in ToolNames}

\* the values Math.random() can select between in this snapshot for this tool
RandomFor(snap, name) ==
  IF snap = "part_001" /\ name = Str(<<"say_hello">>) THEN 1..Len(Greetings) ELSE {1}

\* whether toLocaleString can throw: only get_current_time formats a time
FailsFor(name) ==
  IF name = Str(<<"get_current_time">>) THEN BOOLEAN ELSE {FALSE}

\* what generateContent can settle with: res.text, or a rejection
Replies ==
  {Resolve(Str(<<"generated", " ", "text">>)), Resolve(Str(<<>>)), Resolve(Undef),
   Reject(Thrown(Error(<<"fetch failed">>))), Reject(Str(<<"boom">>))}

(***************************************************************************)
(* State machine                                                           *)
(***************************************************************************)
NoInvocation == [k |-> "none"]

\* the process: starting (awaiting server.connect), running, exited with a
\* code, or killed by a signal
Starting == [state |-> "starting", exitCode |-> <<>>, cause |-> "none"]
Running == [state |-> "running", exitCode |-> <<>>, cause |-> "none"]
Exited(code, cause) == [state |-> "exited", exitCode |-> <<code>>, cause |-> cause]
Killed(signal) == [state |-> "killed", exitCode |-> <<>>, cause |-> signal]

Alive == proc.state \in {"starting", "running"}

\* the server is connected and waits for requests
Init ==
  /\ snapshot \in Snapshots
  /\ env \in EnvValues
  /\ pending = EmptyBag
  /\ last = NoInvocation
  /\ proc = Running

\* a list-tools request arrives; the handler has no await and runs to its end
ListTools ==
  /\ proc = Running
  /\ last = NoInvocation
  /\ last' = Listed(ListToolsTry(snapshot, server))
  /\ UNCHANGED <<snapshot, env, pending, proc>>

\* a call-tool request arrives and the handler runs to its first await or its end
CallTool(name, args, rnd, fails) ==
  LET c == CallToolTry(snapshot, name, args, env, rnd, fails)
  IN /\ proc = Running
     /\ last = NoInvocation
     /\ IF c.k = "await"
        THEN /\ BagCardinality(pending) < MaxPending
             /\ pending' = pending (+) SetToBag({Suspended(name, args, c)})
             /\ UNCHANGED last
        ELSE /\ last' = Settled(name, args, c, 0, <<>>, NoReply)
             /\ UNCHANGED pending
     /\ UNCHANGED <<snapshot, env, proc>>

\* variant: the request is kept in one module-level slot that a later
\* invocation overwrites, so the continuation of p answers for whichever
\* invocation is suspended
GenerateSharedSlot(p, reply) ==
  \E q \in BagToSet(pending) :
    /\ proc = Running
    /\ last = NoInvocation
    /\ BagIn(p, pending)
    /\ last' = Settled(q.name, q.args, Resume(q, reply), q.calls, q.contents, reply)
    /\ pending' = pending (-) SetToBag({p})
    /\ UNCHANGED <<snapshot, env, proc>>

\* generateContent settles for the suspended invocation p and its handler runs
\* on, to its end or to another await of generateContent
Generate(p, reply) ==
  LET c == Resume(p, reply)
  IN /\ proc = Running
     /\ last = NoInvocation
     /\ BagIn(p, pending)
     /\ IF c.k = "await"
        THEN /\ pending' = (pending (-) SetToBag({p})) (+)
                             SetToBag({[Suspended(p.name, p.args, c) EXCEPT !.calls = p.calls + 1]})
             /\ UNCHANGED last
        ELSE /\ last' = Settled(p.name, p.args, c, p.calls, p.contents, reply)
             /\ pending' = pending (-) SetToBag({p})
     /\ UNCHANGED <<snapshot, env, proc>>

\* the handler's promise has settled: the transport sends the response (or the
\* error) before the next message is handled, and the request is discarded
Respond ==
  /\ proc = Running
  /\ last /= NoInvocation
  /\ last' = NoInvocation
  /\ UNCHANGED <<snapshot, env, pending, proc>>

Next ==
  \/ \E name \in ToolNames : \E args \in ArgsFor(name) :
       \E rnd \in RandomFor(snapshot, name) : \E fails \in FailsFor(name) :
         CallTool(name, args, rnd, fails)
  \/ \E p \in BagToSet(pending) : \E reply \in Replies : Generate(p, reply)
  \/ ListTools
  \/ Respond

Spec == Init /\ [][Next]_vars

\* the requests whose handler can reach `await generateContent`
SuspendableRequests ==
  {r \in Requests :
     \E snap \in Snapshots : \E key \in EnvValues :
       CallToolTry(snap, r[1], r[2], key, 1, FALSE).k = "await"}

\* the suspended invocations of request r
SuspendedOf(r) == {p \in BagToSet(pending) : p.name = r[1] /\ p.args = r[2]}

\* generateContent settles for a suspended invocation of request r
GenerateFor(r) == \E p \in SuspendedOf(r) : \E reply \in Replies : Generate(p, reply)

\* every generateContent call eventually returns or fails, and the event loop
\* eventually runs the continuation of a settled call; responses are sent
FairSpec ==
  /\ Spec
  /\ WF_vars(Respond)
  /\ \A r \in SuspendableRequests : SF_vars(GenerateFor(r))

(***************************************************************************)
(* The process: startup, signals, faults, exit codes                       *)
(***************************************************************************)
Signals == {"SIGTERM", "SIGINT", "SIGUSR1", "SIGUSR2"}

\* variant: SIGUSR2 is not registered
SignalHandlersNoUsr2(snap) ==
  IF snap = "part_001" THEN {"SIGTERM", "SIGINT", "SIGUSR1"} ELSE {}

\* the signals the snapshot registers handleShutdown for: only the monolithic
\* server calls setupGracefulShutdown; index.ts and part_002 register nothing
SignalHandlers(snap) ==
  IF snap = "part_001" THEN {"SIGTERM", "SIGINT", "SIGUSR1", "SIGUSR2"} ELSE {}

\* the module has been loaded and main() awaits startServer()
ProcessInit ==
  /\ snapshot \in Snapshots
  /\ env \in EnvValues
  /\ pending = EmptyBag
  /\ last = NoInvocation
  /\ proc = Starting

\* startServer: server.connect(transport) resolves, or it rejects and the
\* catch block logs and calls process.exit(1)
StartServer(connects) ==
  /\ proc = Starting
  /\ proc' = IF connects THEN Running ELSE Exited(1, "startup failure")
  /\ UNCHANGED <<snapshot, env, pending, last>>

\* a signal is delivered: handleShutdown logs and calls process.exit(0) where
\* it is registered; elsewhere the default disposition applies, which ends
\* the process by the signal, except SIGUSR1, which Node.js keeps for its
\* inspector
Signal(sig) ==
  /\ Alive
  /\ proc' = IF sig \in SignalHandlers(snapshot) THEN Exited(0, sig)
             ELSE IF sig = "SIGUSR1" THEN proc
             ELSE Killed(sig)
  /\ UNCHANGED <<snapshot, env, pending, last>>

\* an exception reaches the top of the event loop: the 'uncaughtException'
\* listener logs and calls process.exit(1); without a listener Node.js prints
\* the error and exits with code 1
UncaughtException ==
  /\ Alive
  /\ proc' = Exited(1, "uncaughtException")
  /\ UNCHANGED <<snapshot, env, pending, last>>

\* a promise rejects with no handler: the 'unhandledRejection' listener logs
\* and calls process.exit(1); without a listener Node.js raises it as an
\* uncaught exception and exits with code 1
UnhandledRejection ==
  /\ Alive
  /\ proc' = Exited(1, "unhandledRejection")
  /\ UNCHANGED <<snapshot, env, pending, last>>

ProcessNext ==
  \/ \E connects \in BOOLEAN : StartServer(connects)
  \/ Next
  \/ \E sig \in Signals : Signal(sig)
  \/ UncaughtException
  \/ UnhandledRejection

ProcessSpec == ProcessInit /\ [][ProcessNext]_vars

(***************************************************************************)
(* Properties                                                              *)
(***************************************************************************)
IsSettled == last.k = "settled"

NonEmptyString(v) == v.t = "string" /\ v.s /= <<>>

\* the tool name is one the running snapshot dispatches
IsCase(name) == \E c \in Cases(snapshot) : name = Str(c)

ExactlyOneOutcome(r) == Len(r.results) + Len(r.errors) = 1

\* the arguments value is absent or falsy, or its typeof is 'object'
ArgsShapeAccepted(args) == ~Truthy(args) \/ args.t \in {"object", "array"}

FailsWith(r, code) ==
  /\ r.results = <<>>
  /\ Len(r.errors) = 1
  /\ r.errors[1].code = code

\* C1: every call-tool invocation ends with exactly one ToolResult or exactly
\* one ToolError, never both, never neither: whatever has settled has exactly
\* one outcome, and an invocation suspended at the collaborator call settles,
\* after that one call, once the call returns or fails.
C1_ExactlyOneOutcome ==
  /\ [](IsSettled => ExactlyOneOutcome(last))
  /\ \A r \in SuspendableRequests :
       (SuspendedOf(r) /= {}) ~>
         (/\ IsSettled
          /\ last.name = r[1]
          /\ last.args = r[2]
          /\ last.calls = 1
          /\ ExactlyOneOutcome(last))

\* an invocation that awaited the collaborator has settled with one outcome
C1_Witness ==
  IsSettled /\ last.calls = 1 /\ last.reply.k = "reject" /\ ExactlyOneOutcome(last)

\* C2 as stated: a non-empty string name that is not a registered tool gives
\* MethodNotFound with message `Unknown tool: <name>`, whatever the arguments.
C2_UnknownToolAnyArguments ==
  (IsSettled /\ NonEmptyString(last.name) /\ ~IsCase(last.name)) =>
    /\ FailsWith(last, MethodNotFound)
    /\ last.errors[1].message = <<"Unknown tool: ">> \o last.name.s

\* C2 amended: a non-empty string name that is not a registered tool gives
\* MethodNotFound with message `Unknown tool: <name>` whenever the arguments
\* pass the argument-shape check (absent, falsy or of type object); truthy
\* non-object arguments are rejected first, with InvalidParams.
C2_UnknownTool ==
  (IsSettled /\ NonEmptyString(last.name) /\ ~IsCase(last.name)) =>
    IF ArgsShapeAccepted(last.args)
    THEN /\ FailsWith(last, MethodNotFound)
         /\ last.errors[1].message = <<"Unknown tool: ">> \o last.name.s
    ELSE FailsWith(last, InvalidParams)

\* an unknown tool called with a key-value object was refused as MethodNotFound
C2_Witness ==
  /\ IsSettled
  /\ last.name = Str(<<"bogus">>)
  /\ last.args = Obj(Undef, Undef)
  /\ FailsWith(last, MethodNotFound)

\* C3: an empty or non-string tool name gives InvalidParams, never
\* MethodNotFound, and no handler body runs and no collaborator call is made
\* for that invocation.
C3_InvalidToolName ==
  /\ (IsSettled /\ ~NonEmptyString(last.name)) =>
       /\ FailsWith(last, InvalidParams)
       /\ last.ran = "none"
       /\ last.calls = 0
  /\ \A p \in BagToSet(pending) : NonEmptyString(p.name)

\* a request whose tool name is a number was refused with InvalidParams
C3_Witness ==
  IsSettled /\ last.name = Num(42) /\ FailsWith(last, InvalidParams) /\ last.ran = "none"

\* C4 as stated: with a valid tool name, arguments that are present but not a
\* key-value object (a string, a number, a boolean or an array) fail argument
\* validation with InvalidParams and no handler runs; absent arguments and
\* key-value objects pass argument validation.
C4_ArgumentsShape ==
  (IsSettled /\ NonEmptyString(last.name)) =>
    /\ last.args.t \in {"string", "number", "boolean", "array"} =>
         /\ FailsWith(last, InvalidParams)
         /\ last.errors[1].message = <<"Tool parameters must be an object">>
         /\ last.ran = "none"
    /\ last.args.t \in {"undefined", "object"} =>
         last.errors /= <<McpError(InvalidParams, <<"Tool parameters must be an object">>)>>

\* C5: a failure raised during handler execution that is not a recognized
\* protocol error reaches the caller as InternalError with message
\* `Tool execution failed: <original message>`; a failure of the collaborator
\* call is such a failure.
C5_UnrecognizedFailureWrapped ==
  IsSettled =>
    /\ last.reply.k = "reject" => last.thrown = last.reply.thrown
    /\ (last.thrown /= NoThrow /\ ~(last.thrown.t = "error" /\ last.thrown.e.cls = "McpError")) =>
         LET original == IF last.thrown.t = "error"
                         THEN last.thrown.e.message
                         ELSE last.thrown.s
         IN /\ FailsWith(last, InternalError)
            /\ last.errors[1].message = <<"Tool execution failed: ">> \o original

\* the collaborator call failed with 'fetch failed' and the caller got the
\* wrapped InternalError
C5_Witness ==
  /\ IsSettled
  /\ last.reply = Reject(Thrown(Error(<<"fetch failed">>)))
  /\ last.errors = <<McpError(InternalError, <<"Tool execution failed: ", "fetch failed">>)>>

\* C6: a recognized protocol error raised by the validator or by a handler
\* reaches the caller with its code and message unchanged, never rewrapped as
\* InternalError and never prefixed with `Tool execution failed:`.
C6_ProtocolErrorsPassThrough ==
  IsSettled =>
    /\ (last.thrown.t = "error" /\ last.thrown.e.cls = "McpError") =>
         /\ last.results = <<>>
         /\ last.errors = <<last.thrown.e>>
         /\ Head(last.errors[1].message) /= "Tool execution failed: "
    /\ ~NonEmptyString(last.name) =>
         last.errors = <<McpError(InvalidParams, <<"Tool name must be a non-empty string">>)>>
    /\ (last.ran = "review_prompts" /\ last.args = Obj(Undef, Arr(<<>>))) =>
         last.errors = <<McpError(InvalidParams, <<"prompts array cannot be empty">>)>>
    /\ (NonEmptyString(last.name) /\ ~IsCase(last.name) /\ last.args = Undef) =>
         last.errors = <<McpError(MethodNotFound, <<"Unknown tool: ">> \o last.name.s)>>

\* the review_prompts handler raised InvalidParams for an empty array and the
\* caller got exactly that error
C6_Witness ==
  /\ IsSettled
  /\ last.ran = "review_prompts"
  /\ last.thrown = Thrown(McpError(InvalidParams, <<"prompts array cannot be empty">>))
  /\ last.errors = <<McpError(InvalidParams, <<"prompts array cannot be empty">>)>>

\* a non-empty array whose every element is a string
ValidPrompts(v) ==
  /\ v.t = "array"
  /\ Len(v.elems) > 0
  /\ \A i \in 1..Len(v.elems) : v.elems[i].t = "string"

PromptsOf(args) == IF args.t = "object" THEN args.prompts ELSE Undef

IsReviewPrompts(name) == name = Str(<<"review_prompts">>) /\ IsCase(name)

IsTestGemini(name) == name = Str(<<"test_gemini">>) /\ IsCase(name)

CredentialMissing ==
  env.t = "undefined" \/ (env.t = "string" /\ \A i \in 1..Len(env.s) : env.s[i] = " ")

\* C8 as stated: without a credential, test_gemini with any arguments and
\* review_prompts with valid prompts fail with InvalidParams whose message
\* names GEMINI_API_KEY, never with InternalError.
C8_MissingCredentialAnyArguments ==
  CredentialMissing =>
    /\ (/\ IsSettled
        /\ \/ IsTestGemini(last.name)
           \/ IsReviewPrompts(last.name) /\ ValidPrompts(PromptsOf(last.args))) =>
         /\ FailsWith(last, InvalidParams)
         /\ last.errors[1].message = CredentialRequired
    /\ pending = EmptyBag

\* C8 amended: without a credential, test_gemini with arguments that pass the
\* argument-shape check (absent, falsy or of type object) and review_prompts
\* with valid prompts fail with InvalidParams whose message names
\* GEMINI_API_KEY; test_gemini with truthy non-object arguments fails with
\* InvalidParams 'Tool parameters must be an object'.  Never InternalError, and
\* the collaborator is not called.
C8_MissingCredential ==
  CredentialMissing =>
    /\ (/\ IsSettled
        /\ \/ IsTestGemini(last.name)
           \/ IsReviewPrompts(last.name) /\ ValidPrompts(PromptsOf(last.args))) =>
         /\ FailsWith(last, InvalidParams)
         /\ last.calls = 0
         /\ last.errors[1].message =
              (IF ArgsShapeAccepted(last.args)
               THEN CredentialRequired
               ELSE <<"Tool parameters must be an object">>)
    /\ pending = EmptyBag

\* review_prompts with valid prompts and a whitespace-only credential was
\* refused with the credential message
C8_Witness ==
  /\ env = Str(<<" ">>)
  /\ IsSettled
  /\ IsReviewPrompts(last.name)
  /\ ValidPrompts(PromptsOf(last.args))
  /\ last.errors = <<McpError(InvalidParams, CredentialRequired)>>

\* C9 as stated: when the collaborator's generation call completes with an
\* empty or non-text result, the invocation fails with InternalError and
\* returns no ToolResult.
C9_EmptyCollaboratorResult ==
  (IsSettled /\ last.reply.k = "resolve" /\ ~NonEmptyString(last.reply.text)) =>
    FailsWith(last, InternalError)

Spaces(n) == [i \in 1..n |-> " "]

\* t is s without its leading and trailing whitespace
IsTrimOf(t, s) ==
  /\ t = <<>> \/ (t[1] /= " " /\ t[Len(t)] /= " ")
  /\ \E i, j \in 0..Len(s) : s = Spaces(i) \o t \o Spaces(j)

HasText(s) == \E i \in 1..Len(s) : s[i] /= " "

Range(f) == {f[i] : i \in DOMAIN f}

\* C10: say_hello returns a single text; the base greeting is followed by
\* ' Nice to meet you, <name trimmed>!' if and only if `name` is a string that
\* is non-empty after trimming; otherwise (no arguments, no name, an empty or
\* whitespace-only name, a name that is not a string) no text containing
\* 'Nice to meet you' is returned.
C10_SayHello ==
  (IsSettled /\ last.name = Str(<<"say_hello">>)) =>
    LET n == IF last.args.t = "object" THEN last.args.name ELSE Undef
    IN IF n.t = "string" /\ HasText(n.s)
       THEN /\ last.errors = <<>>
            /\ Len(last.results) = 1
            /\ Len(last.results[1].content) = 1
            /\ last.results[1].content[1].text.t = "string"
            /\ \E g \in Range(Greetings) : \E i, j \in 1..Len(n.s) :
                 /\ IsTrimOf(SubSeq(n.s, i, j), n.s)
                 /\ last.results[1].content[1].text.s =
                      g \o <<" Nice to meet you, ">> \o SubSeq(n.s, i, j) \o <<"!">>
       ELSE /\ ArgsShapeAccepted(last.args) =>
                 /\ last.errors = <<>>
                 /\ Len(last.results) = 1
                 /\ Len(last.results[1].content) = 1
                 /\ last.results[1].content[1].text.s \in Range(Greetings)
            /\ \A k \in 1..Len(last.results) :
                 \A i \in 1..Len(last.results[k].content[1].text.s) :
                   last.results[k].content[1].text.s[i] /= " Nice to meet you, "

\* say_hello({name: " Ada "}) answered '... Nice to meet you, Ada!'
C10_Witness ==
  /\ IsSettled
  /\ last.name = Str(<<"say_hello">>)
  /\ last.args = Obj(Str(<<" ", "Ada", " ">>), Undef)
  /\ last.results =
       <<ToolResult(Str(<<"Hello from your friendly MCP server!", " Nice to meet you, ", "Ada", "!">>))>>

IsListed == last.k = "listed"

\* the descriptors of the answered list-tools request
ListedTools == last.results[1].tools

\* C11: list-tools is idempotent and the registry is immutable: across any
\* interleaving of list-tools and call-tool requests, suspended invocations
\* included, every list-tools response is the same ordered sequence of
\* descriptors, a function of the running snapshot alone, which no request
\* changes; the names come in registration order (the order the snapshot
\* announces its tools in) and are pairwise distinct.
C11_ListToolsIdempotent ==
  /\ [](IsListed =>
          /\ last.errors = <<>>
          /\ Len(last.results) = 1
          /\ ListedTools = ToolsArray(snapshot)
          /\ [i \in 1..Len(ListedTools) |-> ListedTools[i].name] = Tools(snapshot)
          /\ \A i, j \in 1..Len(ListedTools) :
               ListedTools[i].name = ListedTools[j].name => i = j
          /\ \A i \in 1..Len(ListedTools) : ListedTools[i].inputSchema.type = "object")
  /\ [][snapshot' = snapshot]_vars

\* list-tools was answered while a review_prompts invocation was suspended at
\* the collaborator call
C11_Witness ==
  /\ IsListed
  /\ Len(last.results) = 1
  /\ Len(ListedTools) = 3
  /\ \E p \in BagToSet(pending) : p.name = Str(<<"review_prompts">>)

IsGetCurrentTime(name) == name = Str(<<"get_current_time">>) /\ IsCase(name)

\* the invocation logged that formatting the time in the locale failed
FormatFailed(r) ==
  \E i \in 1..Len(r.logs) :
    r.logs[i].level = "error" /\ r.logs[i].message = <<"Failed to format current time">>

\* C12 as stated: get_current_time never ends in a ToolError: every
\* invocation returns a ToolResult with a non-empty text.
C12_GetCurrentTimeAnyArguments ==
  (IsSettled /\ IsGetCurrentTime(last.name)) =>
    /\ last.errors = <<>>
    /\ Len(last.results) = 1
    /\ NonEmptyString(last.results[1].content[1].text)

\* C12 amended: get_current_time invoked with arguments that pass the
\* argument-shape check (absent, falsy or of type object) never ends in a
\* ToolError: it returns one ToolResult whose text is 'The current time is: '
\* followed by the locale-formatted time, or by the ISO timestamp exactly when
\* locale formatting failed; truthy non-object arguments are refused with
\* InvalidParams before the handler runs.
C12_GetCurrentTime ==
  (IsSettled /\ IsGetCurrentTime(last.name)) =>
    IF ArgsShapeAccepted(last.args)
    THEN /\ last.errors = <<>>
         /\ Len(last.results) = 1
         /\ Len(last.results[1].content) = 1
         /\ last.results[1].content[1].type = "text"
         /\ NonEmptyString(last.results[1].content[1].text)
         /\ last.results[1].content[1].text.s =
              (IF FormatFailed(last)
               THEN <<"The current time is: ", "<ISO timestamp>">>
               ELSE <<"The current time is: ", "<weekday, date, time, zone>">>)
    ELSE /\ FailsWith(last, InvalidParams)
         /\ last.ran = "none"

\* locale formatting failed and get_current_time answered with the ISO
\* timestamp
C12_Witness ==
  /\ IsSettled
  /\ IsGetCurrentTime(last.name)
  /\ FormatFailed(last)
  /\ last.results = <<ToolResult(Str(<<"The current time is: ", "<ISO timestamp>">>))>>

\* C13: no retry: an invocation issues at most one collaborator call; a
\* suspended invocation has issued exactly one, and when that call settles the
\* invocation settles in the same step instead of being suspended again; when
\* the call fails the invocation ends with InternalError, the collaborator's
\* failure being the error the handler saw.
C13_NoRetry ==
  /\ [](/\ \A p \in BagToSet(pending) : p.calls = 1
        /\ IsSettled =>
             /\ last.calls \in {0, 1}
             /\ last.reply /= NoReply => last.calls = 1
             /\ last.reply.k = "reject" =>
                  /\ FailsWith(last, InternalError)
                  /\ last.thrown = last.reply.thrown)
  /\ [][(pending' /= pending /\ BagCardinality(pending') <= BagCardinality(pending)) =>
          /\ BagCardinality(pending') = BagCardinality(pending) - 1
          /\ last = NoInvocation
          /\ last'.k = "settled"
          /\ last'.calls = 1
          /\ last'.reply /= NoReply]_vars

\* the one collaborator call of a review_prompts invocation failed and the
\* invocation ended with InternalError
C13_Witness ==
  /\ IsSettled
  /\ last.ran = "review_prompts"
  /\ last.calls = 1
  /\ last.reply.k = "reject"
  /\ FailsWith(last, InternalError)

FiveNames ==
  {<<"say_hello">>, <<"get_current_time">>, <<"server_info">>, <<"test_gemini">>,
   <<"review_prompts">>}

ListedNames == {ListedTools[i].name : i \in 1..Len(ListedTools)}

\* the invocation r was routed to the handler of the tool it names
RoutedToHandler(r) == r.ran = r.name.s[1]

\* C14 as stated: the server implements the de-duplicated union: each of
\* say_hello, get_current_time, server_info, test_gemini and review_prompts
\* appears in the list-tools response and, invoked with a valid arguments
\* shape, is routed to its handler and never yields MethodNotFound.
C14_UnionOfFiveTools ==
  /\ (IsListed /\ Len(last.results) = 1) => FiveNames \subseteq ListedNames
  /\ (IsSettled /\ last.name.t = "string" /\ last.name.s \in FiveNames
        /\ ArgsShapeAccepted(last.args)) =>
       /\ RoutedToHandler(last)
       /\ ~FailsWith(last, MethodNotFound)

\* C14 amended: no server snapshot implements the union of the five tools.
\* Each snapshot lists and dispatches its own subset, the names it announces:
\* say_hello always, and at most three names in all.  A name of the five that
\* the running snapshot announces is, with a valid arguments shape, routed to
\* its handler and never yields MethodNotFound; a name of the five that it does
\* not announce yields MethodNotFound and runs no handler.
C14_ToolsOfSnapshot ==
  /\ (IsListed /\ Len(last.results) = 1) =>
       /\ ListedNames = Range(Tools(snapshot))
       /\ <<"say_hello">> \in ListedNames
       /\ ListedNames \subseteq FiveNames
       /\ Cardinality(ListedNames) <= 3
  /\ (IsSettled /\ last.name.t = "string" /\ last.name.s \in FiveNames
        /\ ArgsShapeAccepted(last.args)) =>
       IF last.name.s \in Range(Tools(snapshot))
       THEN /\ RoutedToHandler(last)
            /\ ~FailsWith(last, MethodNotFound)
       ELSE /\ FailsWith(last, MethodNotFound)
            /\ last.ran = "none"
  /\ \A p \in BagToSet(pending) :
       p.name.s \in Range(Tools(snapshot)) /\ RoutedToHandler(p)

\* review_prompts, announced by the running snapshot, was routed to its
\* handler, which refused an empty array
C14_Witness ==
  /\ IsSettled
  /\ last.name = Str(<<"review_prompts">>)
  /\ <<"review_prompts">> \in Range(Tools(snapshot))
  /\ RoutedToHandler(last)
  /\ FailsWith(last, InvalidParams)

\* the non-whitespace text of the credential
SecretAtoms ==
  IF env.t = "string" THEN {env.s[i] : i \in 1..Len(env.s)} \ {" "} ELSE {}

\* the requests whose diagnostic events are on record
Logged == {r \in {last} \cup BagToSet(pending) : r.k \in {"settled", "suspended", "listed"}}

\* the other usable credentials the process could have been started with
OtherCredentials == {key \in EnvValues : ~ApiKeyInvalid(key) /\ key /= env}

\* C15 as stated: the secret is never logged: no diagnostic event contains
\* the credential value, and the events an invocation has emitted when it
\* reaches the collaborator call are the ones it would have emitted under any
\* other non-empty credential.
C15_SecretNeverLogged ==
  /\ \A r \in Logged : \A i \in 1..Len(r.logs) :
       Range(r.logs[i].message) \cap SecretAtoms = {}
  /\ \A p \in BagToSet(pending) : \A key \in OtherCredentials :
       p.logs = CallToolTry(snapshot, p.name, p.args, key, 1, FALSE).logs

Faults == {"startup failure", "uncaughtException", "unhandledRejection"}

SoloOutcomes(name, args, reply) ==
  {LET c == CallToolTry(snapshot, name, args, env, rnd, fails)
   IN IF c.k = "await"
      THEN IF reply = NoReply THEN NoInvocation
           ELSE Settled(name, args, Resume(Suspended(name, args, c), reply), 1, c.contents, reply)
      ELSE IF reply = NoReply THEN Settled(name, args, c, 0, <<>>, NoReply)
           ELSE NoInvocation :
   rnd \in RandomFor(snapshot, name), fails \in FailsFor(name)}

\* C17: overlapping invocations are independent: the outcome of an invocation
\* is an outcome the same request has alone, under the same environment and
\* collaborator reply, however many other invocations are suspended meanwhile;
\* no step of one invocation changes the environment or the record of another
\* invocation: a step starts one invocation, or it ends exactly one suspended
\* invocation p and the answer is for p's own request and prompt.
C17_Independent ==
  /\ [](IsSettled => last \in SoloOutcomes(last.name, last.args, last.reply))
  /\ [][/\ env' = env
        /\ snapshot' = snapshot
        /\ \/ pending' = pending
           \/ /\ \E x \in BagToSet(pending') : pending' = pending (+) SetToBag({x})
              /\ last' = last
           \/ \E p \in BagToSet(pending) :
                /\ pending' = pending (-) SetToBag({p})
                /\ last'.k = "settled"
                /\ last'.name = p.name
                /\ last'.args = p.args
                /\ last'.contents = p.contents
                /\ last'.ran = p.ran
                /\ SubSeq(last'.logs, 1, Len(p.logs)) = p.logs]_vars

\* a review_prompts invocation was answered while a test_gemini invocation
\* was suspended at the collaborator call
C17_Witness ==
  /\ IsSettled
  /\ last.ran = "review_prompts"
  /\ last.calls = 1
  /\ Len(last.results) = 1
  /\ \E q \in BagToSet(pending) : q.ran = "test_gemini"

\* the last diagnostic event the request emitted
LastEvent(r) == r.logs[Len(r.logs)]

\* what the handlers do when the readiness check fails (server not set)
ListToolsNotReady(snap) == Listed(ListToolsTry(snap, Null))
CallToolNotReady(name, args) ==
  Settled(name, args, Throw(Thrown(ValidateServerState(Null)), "none", <<>>), 0, <<>>, NoReply)

\* C18: no error is silently swallowed: whenever a list-tools or call-tool
\* request ends in a ToolError (failed validation, unknown tool, a handler's
\* domain error, a collaborator failure), the last diagnostic event emitted
\* for it, before the error is surfaced, is an error-level event; for call-tool
\* the event carries the request's tool name and arguments and the message of
\* the failure.  The same holds for the readiness failure of both handlers.
C18_ErrorLogged ==
  /\ (IsSettled /\ last.errors /= <<>>) =>
       /\ last.logs /= <<>>
       /\ LastEvent(last).level = "error"
       /\ LastEvent(last).message = <<"Tool execution failed">>
       /\ LastEvent(last).data.toolName \in {last.name, Str(<<"unknown">>)}
       /\ LastEvent(last).data.args = last.args
       /\ \/ last.errors[1].message = LastEvent(last).data.error
          \/ last.errors[1].message =
               <<"Tool execution failed: ">> \o LastEvent(last).data.error
  /\ (IsListed /\ last.errors /= <<>>) =>
       (last.logs /= <<>> /\ LastEvent(last).level = "error")
  /\ \A snap \in Snapshots :
       LET r == ListToolsNotReady(snap)
       IN /\ FailsWith(r, InternalError)
          /\ r.logs /= <<>>
          /\ LastEvent(r).level = "error"
          /\ LastEvent(r).message = <<"Failed to list tools">>
  /\ LET r == CallToolNotReady(Str(<<"say_hello">>), Undef)
     IN /\ FailsWith(r, InternalError)
        /\ r.logs /= <<>>
        /\ LastEvent(r).level = "error"

\* the collaborator call failed; an error-level event was emitted for the
\* request and the wrapped InternalError is about to be surfaced
C18_Witness ==
  /\ IsSettled
  /\ last.reply = Reject(Str(<<"boom">>))
  /\ FailsWith(last, InternalError)
  /\ LastEvent(last).level = "error"
  /\ LastEvent(last).data.error = <<"boom">>

\* the invocations that have sent a prompt to the collaborator for review
Reviewing ==
  {r \in {last} \cup BagToSet(pending) :
     r.k \in {"settled", "suspended"} /\ r.ran = "review_prompts" /\ r.calls > 0}

\* the part of the aggregate prompt between the instructions and the closing
\* request
ListPart(contents) ==
  SubSeq(contents, Len(ReviewIntro) + 1, Len(contents) - Len(ReviewOutro))

\* the number of places where text occurs in contents
Occurrences(text, contents) ==
  Cardinality({k \in 1..Len(contents) :
                 k + Len(text) - 1 <= Len(contents)
                 /\ SubSeq(contents, k, k + Len(text) - 1) = text})

Ordinals == <<"1", "2", "3", "4", "5", "6", "7", "8", "9">>

\* C19: for a valid review_prompts request with prompts p1..pn exactly one
\* aggregate prompt is sent to the collaborator; it embeds every input prompt
\* exactly once, in input order, the i-th prefixed with `i. ` (numbered from 1
\* without gaps), the items separated by a blank line, between the review
\* instructions and the closing request.
C19_AggregatePrompt ==
  \A r \in Reviewing :
    LET prompts == r.args.prompts.elems
        n == Len(prompts)
        list == ListPart(r.contents)
    IN /\ r.calls = 1
       /\ ValidPrompts(r.args.prompts)
       /\ SubSeq(r.contents, 1, Len(ReviewIntro)) = ReviewIntro
       /\ SubSeq(r.contents, Len(r.contents) - Len(ReviewOutro) + 1, Len(r.contents)) = ReviewOutro
       /\ Len(list) = 4 * n - 1
       /\ \A i \in 1..n :
            /\ Len(prompts[i].s) = 1
            /\ list[4 * i - 3] = Ordinals[i]
            /\ list[4 * i - 2] = ". "
            /\ list[4 * i - 1] = prompts[i].s[1]
            /\ i < n => list[4 * i] = "\n\n"
            /\ Occurrences(prompts[i].s, r.contents) = 1
            /\ Occurrences(<<Ordinals[i], ". ">>, r.contents) = 1
       /\ Occurrences(<<". ">>, r.contents) = n

\* review_prompts with two prompts is suspended at the collaborator call, which
\* carries '1. prompt-1', a blank line, '2. prompt-2'
C19_Witness ==
  \E p \in BagToSet(pending) :
    /\ p.ran = "review_prompts"
    /\ p.args = Obj(Undef, Arr(<<PromptAt(1), PromptAt(2)>>))
    /\ p.calls = 1
    /\ ListPart(p.contents) = <<"1", ". ", "prompt-1", "\n\n", "2", ". ", "prompt-2">>

\* the arguments value is present and not a key-value object
NotKeyValueObject(args) == args.t \in {"string", "number", "boolean", "array"}

\* the arguments value is one validateToolParams refuses
RefusedByValidator(args) == ~ArgsShapeAccepted(args)

\* the checks of the fixed order that request r violates, each taken on its
\* own: 1 tool-name shape, 2 arguments shape, 3 unknown tool, then for
\* review_prompts 4 prompts not an array, 5 prompts empty, 6 an element not a
\* string, and 7 the missing credential of the tools that need one
ViolatedChecks(r, argsShapeFails) ==
  {k \in 1..7 :
     CASE k = 1 -> ~NonEmptyString(r.name)
       [] k = 2 -> argsShapeFails
       [] k = 3 -> ~IsCase(r.name)
       [] k = 4 -> IsReviewPrompts(r.name) /\ PromptsOf(r.args).t /= "array"
       [] k = 5 -> IsReviewPrompts(r.name) /\ PromptsOf(r.args) = Arr(<<>>)
       [] k = 6 -> /\ IsReviewPrompts(r.name)
                   /\ PromptsOf(r.args).t = "array"
                   /\ \E i \in 1..Len(PromptsOf(r.args).elems) :
                        PromptsOf(r.args).elems[i].t /= "string"
       [] k = 7 -> (IsReviewPrompts(r.name) \/ IsTestGemini(r.name)) /\ CredentialMissing}

\* the error check k reports
ErrorOfCheck(k, r) ==
  CASE k = 1 -> McpError(InvalidParams, <<"Tool name must be a non-empty string">>)
    [] k = 2 -> McpError(InvalidParams, <<"Tool parameters must be an object">>)
    [] k = 3 -> McpError(MethodNotFound, <<"Unknown tool: ">> \o StringOf(r.name))
    [] k = 4 -> McpError(InvalidParams, <<"prompts parameter is required and must be an array">>)
    [] k = 5 -> McpError(InvalidParams, <<"prompts array cannot be empty">>)
    [] k = 6 -> McpError(InvalidParams, <<"All prompts must be strings">>)
    [] k = 7 -> McpError(InvalidParams, CredentialRequired)

Earliest(checks) == CHOOSE k \in checks : \A j \in checks : k <= j

\* r violates several checks and reports the error of the earliest one only
ReportsEarliest(r, checks) ==
  Cardinality(checks) >= 2 =>
    /\ r.results = <<>>
    /\ r.errors = <<ErrorOfCheck(Earliest(checks), r)>>
    /\ r.calls = 0

\* C20 as stated: when one invocation violates several checks at once, the
\* single error reported is that of the earliest violated check in the fixed
\* order, the arguments-shape check being violated by every arguments value
\* that is present and not a key-value object.
C20_EarliestFailure ==
  IsSettled => ReportsEarliest(last, ViolatedChecks(last, NotKeyValueObject(last.args)))

\* the same order, the arguments-shape check taken as validateToolParams
\* performs it (violated by a truthy value whose typeof is not 'object')
EarliestFailureOfValidator ==
  /\ IsSettled => ReportsEarliest(last, ViolatedChecks(last, RefusedByValidator(last.args)))
  /\ \A p \in BagToSet(pending) : ViolatedChecks(p, RefusedByValidator(p.args)) = {}

\* request r passed every validation that precedes the collaborator call: the
\* validator's two checks, the dispatch to a tool that calls the collaborator,
\* the handler's checks of `prompts`, and the credential check
PassedValidation(r) ==
  /\ NonEmptyString(r.name)
  /\ ArgsShapeAccepted(r.args)
  /\ IsTestGemini(r.name) \/ IsReviewPrompts(r.name)
  /\ IsReviewPrompts(r.name) => ValidPrompts(PromptsOf(r.args))
  /\ ~CredentialMissing

\* C21: the external collaborator is called only after every validation has
\* passed: an invocation that ends in InvalidParams or MethodNotFound has
\* made no collaborator call, say_hello never calls the collaborator, and an
\* invocation that has called it, suspended or settled, had passed every
\* validation.
C21_ValidatedBeforeCollaborator ==
  /\ IsSettled =>
       /\ (FailsWith(last, InvalidParams) \/ FailsWith(last, MethodNotFound)) =>
            /\ last.calls = 0
            /\ last.reply = NoReply
            /\ last.contents = <<>>
       /\ last.name = Str(<<"say_hello">>) => (last.calls = 0 /\ last.reply = NoReply)
       /\ last.ran = "say_hello" => last.calls = 0
       /\ (last.calls > 0 \/ last.reply /= NoReply) => PassedValidation(last)
  /\ \A p \in BagToSet(pending) :
       /\ PassedValidation(p)
       /\ p.ran \in {"test_gemini", "review_prompts"}

\* test_gemini without a credential ended in InvalidParams and the
\* collaborator was not called
C21_Witness ==
  /\ env = Undef
  /\ IsSettled
  /\ last.ran = "test_gemini"
  /\ FailsWith(last, InvalidParams)
  /\ last.calls = 0
  /\ last.reply = NoReply

\* the names the list-tools handler of the running snapshot returns
Listing ==
  LET tools == Listed(ListToolsTry(snapshot, server)).results[1].tools
  IN {tools[i].name : i \in 1..Len(tools)}

\* C22: within each server snapshot the listing and the dispatch agree: every
\* list-tools response returns the same names, and a call-tool invocation
\* with a non-empty string name and a valid arguments shape ends in
\* MethodNotFound if and only if list-tools does not return that name; an
\* invocation suspended at the collaborator is for a listed name.
C22_ListingAgreesWithDispatch ==
  /\ IsListed => (Len(last.results) = 1 /\ ListedNames = Listing)
  /\ (IsSettled /\ NonEmptyString(last.name) /\ ArgsShapeAccepted(last.args)) =>
       (last.name.s \in Listing <=> ~FailsWith(last, MethodNotFound))
  /\ \A p \in BagToSet(pending) : p.name.s \in Listing

\* server_info called on the server of src/server.ts, which does not list it,
\* ended in MethodNotFound
C22_Witness ==
  /\ snapshot = "server_ts"
  /\ IsSettled
  /\ last.name = Str(<<"server_info">>)
  /\ last.args = Obj(Undef, Undef)
  /\ <<"server_info">> \notin Listing
  /\ FailsWith(last, MethodNotFound)

====
